---- MODULE Spec2Model ----
(***************************************************************************)
(* Limit order book of src/src/main.cpp (class Orderbook, lines 155-330).  *)
(*                                                                         *)
(* The book is two price ladders (bids_, asks_), each a map from a price   *)
(* to the list of orders resting at that price, and an index (orders_)     *)
(* from order id to an entry holding the order and the position of its     *)
(* list node.  AddOrder inserts and then runs the matching loop of         *)
(* MatchOrders; CancelOrder removes one order; MatchOrder(OrderModify) is  *)
(* the modify operation.                                                   *)
(*                                                                         *)
(* The source reads through references whose referent it has already       *)
(* destroyed, and two functions end without a return statement.  Each such *)
(* read is a choice among the values of the type it reads (the value that  *)
(* was there included); where the garbage would be used as a list node     *)
(* that is not in the list the program stops (outcome "aborted").          *)
(***************************************************************************)
EXTENDS Integers, Sequences, FiniteSets, TLC

\* ------------------------------------------------------------------ bounds
MaxId == 3
MaxPrice == 2
MaxQty == 2
MaxCalls == 3

OrderIds == 1..MaxId
Prices == 1..MaxPrice
Quantities == 0..MaxQty
Nodes == 1..MaxCalls
OrderTypes == {"GoodTillCancel", "FillAndKill"}
Sides == {"Buy", "Sell"}

VARIABLES
    bids,      \* bids_ : price -> list of orders, best = highest price
    asks,      \* asks_ : price -> list of orders, best = lowest price
    orders,    \* orders_ : order id -> entry (order, location_)
    nextNode,  \* number of the next list node / Order object to be allocated
    trades,    \* the local `trades` of MatchOrders while it runs
    pc,        \* "idle": no call is running; "match": in the loop of
               \* MatchOrders; otherwise the place the call has ended at
    ret,       \* the Trades value the call returned
    outcome,   \* how the call ended: "ok", "threw" or "aborted"
    call,      \* the call that is running or has just ended, with its arguments
    calls      \* the number of calls made so far

vars == <<bids, asks, orders, nextNode, trades, pc, ret, outcome, call, calls>>

\* ---------------------------------------------------------------- helpers
\* std::max for std::min.
Max2(a, b) == IF a < b THEN b ELSE a

Min2(a, b) == IF a < b THEN a ELSE b

SetMax(S) == CHOOSE x \in S : \A y \in S : y <= x

SetMin(S) == CHOOSE x \in S : \A y \in S : x <= y

RemoveKey(f, k) == [x \in (DOMAIN f) \ {k} |-> f[x]]

RemoveAt(s, i) == SubSeq(s, 1, i - 1) \o SubSeq(s, i + 1, Len(s))

EmptyMap == [x \in {} |-> 0]

\* An Order object; node names the object and the list node that holds it.
Order(type, id, side, price, quantity, node) ==
    [type |-> type, id |-> id, side |-> side, price |-> price,
     initial |-> quantity, remaining |-> quantity, node |-> node]

IsFilled(o) == o.remaining = 0

FillThrows(o, quantity) == quantity > o.remaining

Fill(o, quantity) == [o EXCEPT !.remaining = @ - quantity]

\* The entry of the index: order_ points to the Order (its fields that never
\* change are kept here; its remaining quantity is the ladder's, the object
\* being one), location_ to the list node numbered o.node.
OrderEntry(o) ==
    [type |-> o.type, side |-> o.side, price |-> o.price, location |-> o.node]

TradeInfo(id, price, quantity) == [id |-> id, price |-> price, qty |-> quantity]

Trade(bidTrade, askTrade) == [bid |-> bidTrade, ask |-> askTrade]

NoCall ==
    [op |-> "none", type |-> "-", id |-> 0, side |-> "-", price |-> 0, qty |-> 0]

Book == [bids |-> bids, asks |-> asks, orders |-> orders, status |-> "ok"]

\* The lowest bid price: bids_ ordered as asks_ is.
WorstBid(b) == SetMin(DOMAIN b)

BestBid(b) == SetMax(DOMAIN b)

BestAsk(a) == SetMin(DOMAIN a)

\* ------------------------------------------------------- undefined reads
\* The id read through a reference to the element of a popped list node
\* (lines 226, 232): any id.
DanglingId == OrderIds

\* The side and price of the order and the list node read through a
\* reference into an erased index entry (lines 302-314): any of each.
DanglingEntry == [side : Sides, price : Prices, location : Nodes]

\* What does not name an order or a price: what a report shows when the
\* read behind it did not yield the value that was there.
JunkId == 0

JunkPrice == 0

\* The id and price of a popped order as lines 241-242 read them: the
\* order's own, or not.
DanglingTradeInfo(o, quantity) ==
    {TradeInfo(o.id, o.price, quantity), TradeInfo(JunkId, JunkPrice, quantity)}

JunkTrade == Trade(TradeInfo(JunkId, JunkPrice, 0), TradeInfo(JunkId, JunkPrice, 0))

\* The value of a call that ends without a return statement.
MissingReturn(local) == {<<>>, local, <<JunkTrade>>}

\* --------------------------------------------------------------- CanMatch
\* CanMatch with the comparisons made strict.
CanMatchStrict(B, side, price) ==
    IF side = "Buy"
    THEN IF DOMAIN B.asks = {} THEN FALSE ELSE price > BestAsk(B.asks)
    ELSE IF DOMAIN B.bids = {} THEN FALSE ELSE price < BestBid(B.bids)

CanMatch(B, side, price) ==
    IF side = "Buy"
    THEN IF DOMAIN B.asks = {} THEN FALSE ELSE price >= BestAsk(B.asks)
    ELSE IF DOMAIN B.bids = {} THEN FALSE ELSE price <= BestBid(B.bids)

\* ------------------------------------------------------------ CancelOrder
HasNode(level, node) == \E i \in 1..Len(level) : level[i].node = node

\* EraseNode without the erase of the emptied level (lines 308-309, 316-317).
EraseNodeKeepsLevel(ladder, price, node) ==
    LET level == ladder[price]
        i == CHOOSE j \in 1..Len(level) : level[j].node = node
    IN [ladder EXCEPT ![price] = RemoveAt(level, i)]

EraseNode(ladder, price, node) ==
    LET level == ladder[price]
        i == CHOOSE j \in 1..Len(level) : level[j].node = node
        rest == RemoveAt(level, i)
    IN IF rest = <<>> THEN RemoveKey(ladder, price)
                      ELSE [ladder EXCEPT ![price] = rest]

\* Lines 302-320, with e the (order, orderIterator) the bindings yield.
CancelFromLadder(B, e) ==
    LET ladder == IF e.side = "Sell" THEN B.asks ELSE B.bids IN
    IF e.price \notin DOMAIN ladder
    THEN [B EXCEPT !.status = "threw"]                      \* map::at
    ELSE IF ~HasNode(ladder[e.price], e.location)
    THEN [B EXCEPT !.status = "aborted"]
    ELSE IF e.side = "Sell"
    THEN [B EXCEPT !.asks = EraseNode(B.asks, e.price, e.location)]
    ELSE [B EXCEPT !.bids = EraseNode(B.bids, e.price, e.location)]

\* The entry is erased from the index before `order` and `orderIterator`,
\* which are references into it, are read.
CancelOrderOutcomes(B, orderId) ==
    IF orderId \notin DOMAIN B.orders
    THEN {B}
    ELSE {CancelFromLadder([B EXCEPT !.orders = RemoveKey(@, orderId)], e) :
            e \in DanglingEntry}

\* ------------------------------------------------------------ MatchOrders
\* LoopExits with bidPrice <= askPrice for bidPrice < askPrice.
LoopExitsOnEqual(B) ==
    IF DOMAIN B.bids = {} \/ DOMAIN B.asks = {}
    THEN TRUE
    ELSE BestBid(B.bids) <= BestAsk(B.asks)

\* Lines 201-209: the tests that leave the outer loop.
LoopExits(B) ==
    IF DOMAIN B.bids = {} \/ DOMAIN B.asks = {}
    THEN TRUE
    ELSE BestBid(B.bids) < BestAsk(B.asks)

\* The list of a level after its front order was filled by `quantity`
\* (lines 220-233): the front order is popped when it is filled.
AfterFill(level, quantity) ==
    LET o == Fill(Head(level), quantity) IN
    IF IsFilled(o) THEN Tail(level) ELSE <<o>> \o Tail(level)

\* PutLevel without the erase of lines 235-238.
PutLevelKeepsEmpty(ladder, price, level) == [ladder EXCEPT ![price] = level]

\* Lines 235-238: a level whose list became empty is erased.
PutLevel(ladder, price, level) ==
    IF level = <<>> THEN RemoveKey(ladder, price)
                    ELSE [ladder EXCEPT ![price] = level]

\* orders_.erase(bid->GetOrderId()) after bids.pop_front(): `bid` refers to
\* the element of the popped node.
EraseFilled(index, filled) ==
    IF filled THEN {RemoveKey(index, g) : g \in DanglingId} ELSE {index}

\* One leg of the trade (lines 241-242), read through `bid` / `ask`.
TradeLeg(o, filled, quantity) ==
    IF filled THEN DanglingTradeInfo(o, quantity)
              ELSE {TradeInfo(o.id, o.price, quantity)}

\* The test of the inner loop (line 211) after the body: `bids` and `asks`
\* refer to the lists of the levels, which an erased level has destroyed.
InnerTest(erased) == IF erased THEN {"ok", "aborted"} ELSE {"ok"}

\* One run of the body of the inner loop (lines 213-243) and of its test.
MatchStepOutcomes(B, tr) ==
    LET bidPrice == BestBid(B.bids)
        askPrice == BestAsk(B.asks)
        bid == Head(B.bids[bidPrice])
        ask == Head(B.asks[askPrice])
        quantity == Min2(bid.remaining, ask.remaining)
        bidFilled == IsFilled(Fill(bid, quantity))
        askFilled == IsFilled(Fill(ask, quantity))
        bidsLevel == AfterFill(B.bids[bidPrice], quantity)
        asksLevel == AfterFill(B.asks[askPrice], quantity)
        bids2 == PutLevel(B.bids, bidPrice, bidsLevel)
        asks2 == PutLevel(B.asks, askPrice, asksLevel)
    IN
    IF FillThrows(bid, quantity)
    THEN {[bids |-> B.bids, asks |-> B.asks, orders |-> B.orders,
           status |-> "threw", trades |-> tr]}
    ELSE IF FillThrows(ask, quantity)
    THEN {[bids |-> [B.bids EXCEPT ![bidPrice][1] = Fill(bid, quantity)],
           asks |-> B.asks, orders |-> B.orders,
           status |-> "threw", trades |-> tr]}
    ELSE
    {[bids |-> bids2, asks |-> asks2, orders |-> o2, status |-> st,
      trades |-> Append(tr, Trade(bt, at))] :
        <<o2, bt, at, st>> \in
          {<<x2, b, a, s>> \in
              (UNION {EraseFilled(x1, askFilled) :
                        x1 \in EraseFilled(B.orders, bidFilled)})
              \X TradeLeg(bid, bidFilled, quantity)
              \X TradeLeg(ask, askFilled, quantity)
              \X InnerTest(bidsLevel = <<>> \/ asksLevel = <<>>) : TRUE}}

\* Lines 248-254 and 255-261: a FillAndKill order at the front of the best
\* level of a ladder is cancelled.
CleanupFront(B, ladder, best) ==
    IF DOMAIN ladder = {}
    THEN {B}
    ELSE LET order == Head(ladder[best]) IN
         IF order.type = "FillAndKill"
         THEN CancelOrderOutcomes(B, order.id)
         ELSE {B}

CleanupOutcomes(B) ==
    UNION {IF B1.status = "ok"
           THEN CleanupFront(B1, B1.asks,
                             IF DOMAIN B1.asks = {} THEN 0 ELSE BestAsk(B1.asks))
           ELSE {B1} :
           B1 \in CleanupFront(B, B.bids,
                               IF DOMAIN B.bids = {} THEN 0 ELSE BestBid(B.bids))}

\* --------------------------------------------------------------- AddOrder
\* Rejected without the test of line 267.
RejectedNoDuplicateTest(B, o) ==
    o.type = "FillAndKill" /\ ~CanMatch(B, o.side, o.price)

\* Lines 267-270: the two tests that return {} before anything is stored.
Rejected(B, o) ==
    IF o.id \in DOMAIN B.orders
    THEN TRUE
    ELSE o.type = "FillAndKill" /\ ~CanMatch(B, o.side, o.price)

\* push_front for push_back.
PushFront(level, o) == <<o>> \o level

\* orders.push_back(order) (lines 277, 284).
PushBack(level, o) == Append(level, o)

\* bids_[price] / asks_[price] creates the level when it is absent.
Insert(ladder, o) ==
    IF o.price \in DOMAIN ladder
    THEN [ladder EXCEPT ![o.price] = PushBack(@, o)]
    ELSE ladder @@ (o.price :> PushBack(<<>>, o))

\* ------------------------------------------------- MatchOrder(OrderModify)
\* ModifyReturn without the test of line 325.
ModifyReturnNoTest(B, orderId) == MissingReturn(<<>>)

\* Lines 325-329: {} for an unknown id; otherwise the function ends without
\* a return statement and without touching the book.
ModifyReturn(B, orderId) ==
    IF orderId \notin DOMAIN B.orders THEN {<<>>} ELSE MissingReturn(<<>>)

\* ----------------------------------------------------------- GetLevelInfo
\* The prices of a ladder in the order its map keeps them: bids_ under
\* std::greater, asks_ under std::less (lines 165-168).
RECURSIVE BidPrices(_)
BidPrices(ladder) ==
    IF DOMAIN ladder = {}
    THEN <<>>
    ELSE <<BestBid(ladder)>> \o BidPrices(RemoveKey(ladder, BestBid(ladder)))

RECURSIVE AskPrices(_)
AskPrices(ladder) ==
    IF DOMAIN ladder = {}
    THEN <<>>
    ELSE <<BestAsk(ladder)>> \o AskPrices(RemoveKey(ladder, BestAsk(ladder)))

\* The sum of the remaining quantities of the orders of a level.
RECURSIVE LevelQuantity(_)
LevelQuantity(level) ==
    IF level = <<>> THEN 0
                    ELSE Head(level).remaining + LevelQuantity(Tail(level))

\* A LevelInfo (lines 39-43).
LevelInfo(price, quantity) == [price |-> price, quantity |-> quantity]

\* GetLevelInfo(): one LevelInfo for each level of each ladder, in the order
\* of the ladder.
LevelInfos(ladder, prices) ==
    [i \in 1..Len(prices) |->
        LevelInfo(prices[i], LevelQuantity(ladder[prices[i]]))]

GetLevelInfo ==
    [bids |-> LevelInfos(bids, BidPrices(bids)),
     asks |-> LevelInfos(asks, AskPrices(asks))]

Init ==
    /\ bids = EmptyMap
    /\ asks = EmptyMap
    /\ orders = EmptyMap
    /\ nextNode = 1
    /\ trades = <<>>
    /\ pc = "idle"
    /\ ret = <<>>
    /\ outcome = "ok"
    /\ call = NoCall
    /\ calls = 0

\* A call starts: the caller is between calls and has calls left to make.
Calls(c) ==
    /\ pc = "idle"
    /\ calls < MaxCalls
    /\ calls' = calls + 1
    /\ call' = c

\* The program has stopped: nothing of it is left to look at.
Aborted ==
    /\ bids' = EmptyMap
    /\ asks' = EmptyMap
    /\ orders' = EmptyMap
    /\ nextNode' = 0
    /\ trades' = <<>>
    /\ ret' = <<>>
    /\ outcome' = "aborted"
    /\ pc' = "aborted"

AddOrder(type, id, side, price, quantity) ==
    /\ Calls([op |-> "AddOrder", type |-> type, id |-> id, side |-> side,
              price |-> price, qty |-> quantity])
    /\ LET o == Order(type, id, side, price, quantity, nextNode) IN
       IF Rejected(Book, o)
       THEN /\ ret' = <<>>
            /\ pc' = IF id \in DOMAIN orders THEN "AddOrder:268" ELSE "AddOrder:270"
            /\ UNCHANGED <<bids, asks, orders, nextNode, trades, outcome>>
       ELSE /\ IF side = "Buy"
               THEN bids' = Insert(bids, o) /\ asks' = asks
               ELSE asks' = Insert(asks, o) /\ bids' = bids
            /\ orders' = orders @@ (id :> OrderEntry(o))
            /\ nextNode' = nextNode + 1
            /\ pc' = "match"
            /\ UNCHANGED <<trades, ret, outcome>>

\* One iteration of the matching loop.
MatchIter ==
    /\ pc = "match"
    /\ ~LoopExits(Book)
    /\ \E B2 \in MatchStepOutcomes(Book, trades) :
          IF B2.status = "aborted"
          THEN Aborted
          ELSE /\ bids' = B2.bids
               /\ asks' = B2.asks
               /\ orders' = B2.orders
               /\ trades' = IF B2.status = "ok" THEN B2.trades ELSE <<>>
               /\ outcome' = B2.status
               /\ pc' = IF B2.status = "ok" THEN "match" ELSE "Fill:86"
               /\ UNCHANGED <<nextNode, ret>>
    /\ UNCHANGED <<call, calls>>

\* The loop is left: lines 248-262, and AddOrder returns what MatchOrders
\* returned (line 289).
MatchReturn ==
    /\ pc = "match"
    /\ LoopExits(Book)
    /\ \E B2 \in CleanupOutcomes(Book) :
          IF B2.status = "aborted"
          THEN Aborted
          ELSE /\ bids' = B2.bids
               /\ asks' = B2.asks
               /\ orders' = B2.orders
               /\ outcome' = B2.status
               /\ IF B2.status = "ok"
                  THEN ret' \in MissingReturn(trades)
                  ELSE ret' = <<>>
               /\ trades' = <<>>
               /\ pc' = "AddOrder:289"
               /\ UNCHANGED nextNode
    /\ UNCHANGED <<call, calls>>

CancelOrder(orderId) ==
    /\ Calls([NoCall EXCEPT !.op = "CancelOrder", !.id = orderId])
    /\ \E B2 \in CancelOrderOutcomes(Book, orderId) :
          IF B2.status = "aborted"
          THEN Aborted
          ELSE /\ bids' = B2.bids
               /\ asks' = B2.asks
               /\ orders' = B2.orders
               /\ outcome' = B2.status
               /\ ret' = <<>>
               /\ pc' = IF orderId \in DOMAIN orders THEN "CancelOrder:321"
                                                    ELSE "CancelOrder:295"
               /\ UNCHANGED <<nextNode, trades>>

\* MatchOrder(OrderModify), the modify operation.
ModifyOrder(id, side, price, quantity) ==
    /\ Calls([op |-> "ModifyOrder", type |-> "-", id |-> id, side |-> side,
              price |-> price, qty |-> quantity])
    /\ ret' \in ModifyReturn(Book, id)
    /\ pc' = IF id \in DOMAIN orders THEN "MatchOrder:329" ELSE "MatchOrder:326"
    /\ UNCHANGED <<bids, asks, orders, nextNode, trades, outcome>>

\* The caller has the result of the call and goes on to the next one; the
\* returned value is gone.  After "aborted" there is no caller any more.
CallerResumes ==
    /\ pc \notin {"idle", "match", "aborted"}
    /\ pc' = "idle"
    /\ ret' = <<>>
    /\ outcome' = "ok"
    /\ call' = NoCall
    /\ UNCHANGED <<bids, asks, orders, nextNode, trades, calls>>

Next ==
    \/ \E type \in OrderTypes, id \in OrderIds, side \in Sides,
          price \in Prices, quantity \in Quantities :
          AddOrder(type, id, side, price, quantity)
    \/ MatchIter
    \/ MatchReturn
    \/ \E id \in OrderIds : CancelOrder(id)
    \/ \E id \in OrderIds, side \in Sides, price \in Prices,
          quantity \in Quantities : ModifyOrder(id, side, price, quantity)
    \/ CallerResumes

Spec == Init /\ [][Next]_vars
\* ================================================================ claims
RestingOrders(ladder) ==
    UNION {{ladder[p][i] : i \in 1..Len(ladder[p])} : p \in DOMAIN ladder}

AddOrderReturned ==
    pc \in {"AddOrder:268", "AddOrder:270", "AddOrder:289"} /\ outcome = "ok"

ModifyOrderReturned ==
    pc \in {"MatchOrder:326", "MatchOrder:329"} /\ outcome = "ok"

CallOf(op) == pc = "idle" /\ call'.op = op

Returns == pc' \notin {"idle", "match", "aborted"} /\ outcome' = "ok"

\* C1: after an AddOrder call has returned the book is not crossed: a ladder
\* is empty, or every resting bid price is below every resting ask price.
C1_NotCrossedAfterAddOrder ==
    AddOrderReturned =>
        \A b \in RestingOrders(bids), a \in RestingOrders(asks) : b.price < a.price

\* An AddOrder call that traded has returned and both ladders hold orders.
C1_Witness ==
    /\ AddOrderReturned
    /\ pc = "AddOrder:289"
    /\ ret # <<>> /\ ret[1].bid.qty > 0
    /\ RestingOrders(bids) # {}
    /\ RestingOrders(asks) # {}

\* C2: after an AddOrder or ModifyOrder call has returned no FillAndKill
\* order is in a ladder or in the index.
C2_NoFillAndKillRests ==
    (AddOrderReturned \/ ModifyOrderReturned) =>
        /\ \A o \in RestingOrders(bids) \cup RestingOrders(asks) :
              o.type # "FillAndKill"
        /\ \A id \in DOMAIN orders : orders[id].type # "FillAndKill"

\* C3: price-time priority: of two orders resting at one price on one side,
\* the one inserted later (the higher node number) is not touched by a fill
\* while the one inserted earlier rests with remaining quantity.
C3_TimePriority ==
    [][(pc = "match" /\ Len(trades') > Len(trades)) =>
         \A ladder \in {bids, asks} : \A p \in DOMAIN ladder :
            \A i, j \in 1..Len(ladder[p]) :
               (ladder[p][i].node < ladder[p][j].node /\ ladder[p][i].remaining > 0)
                  => ladder[p][j] \in (RestingOrders(bids) \cup RestingOrders(asks))'
      ]_vars

\* The first of two bids at one price was filled and the second rests whole.
C3_Witness ==
    /\ pc = "match"
    /\ Len(trades) = 1 /\ trades[1].bid.qty > 0
    /\ \E p \in DOMAIN bids :
          /\ trades[1].bid.price = p
          /\ bids[p][1].node = 2
          /\ bids[p][1].remaining = bids[p][1].initial
          /\ bids[p][1].id # trades[1].bid.id

\* C4: a trade pairs the front order of the best bid level with the front
\* order of the best ask level; both legs carry min(bid remaining, ask
\* remaining) taken before the fill, and each leg its own order's id and price.
C4_TradeOfTheFrontOrders ==
    [][(pc = "match" /\ Len(trades') = Len(trades) + 1) =>
         LET bid == bids[SetMax(DOMAIN bids)][1]
             ask == asks[SetMin(DOMAIN asks)][1]
             q == IF bid.remaining < ask.remaining THEN bid.remaining
                                                   ELSE ask.remaining
             t == trades'[Len(trades')]
         IN /\ t.bid = [id |-> bid.id, price |-> bid.price, qty |-> q]
            /\ t.ask = [id |-> ask.id, price |-> ask.price, qty |-> q]
            /\ SubSeq(trades', 1, Len(trades)) = trades
      ]_vars

\* C5: AddOrder returns the trades its matching loop produced, in order;
\* the empty list when it produced none.
C5_ReturnsTheTradesOfTheCall ==
    [][(CallOf("AddOrder") /\ Returns => ret' = <<>>)
       /\ (pc = "match" /\ Returns => ret' = trades)]_vars

\* C6: AddOrder with an id that is in the index returns no trades and
\* leaves the ladders and the index as they were.
C6_DuplicateIdIsNoOp ==
    [][(CallOf("AddOrder") /\ call'.id \in DOMAIN orders) =>
         /\ Returns
         /\ ret' = <<>>
         /\ UNCHANGED <<bids, asks, orders>>
      ]_vars

\* A duplicate of a resting order, with another price or quantity, was refused.
C6_Witness ==
    /\ pc = "AddOrder:268"
    /\ \E o \in RestingOrders(bids) \cup RestingOrders(asks) :
          /\ o.id = call.id
          /\ o.price # call.price \/ o.initial # call.qty \/ o.side # call.side

\* Whether an order of this side and price can cross, as the claim puts it.
CanCross(side, price) ==
    IF side = "Buy" THEN \E p \in DOMAIN asks : price >= p
                    ELSE \E p \in DOMAIN bids : price <= p

\* C7: a FillAndKill order with a new id is put into the book exactly when it
\* can cross; when it cannot, AddOrder returns no trades and the book is
\* unchanged.
C7_FillAndKillAdmission ==
    [][(CallOf("AddOrder") /\ call'.type = "FillAndKill"
          /\ call'.id \notin DOMAIN orders) =>
         IF CanCross(call'.side, call'.price)
         THEN /\ pc' = "match"
              /\ call'.id \in DOMAIN orders'
              /\ LET ladder == IF call'.side = "Buy" THEN bids' ELSE asks'
                     level == ladder[call'.price]
                 IN /\ level[Len(level)].id = call'.id
                    /\ level[Len(level)].type = "FillAndKill"
                    /\ level[Len(level)].remaining = call'.qty
         ELSE /\ Returns
              /\ ret' = <<>>
              /\ UNCHANGED <<bids, asks, orders>>
      ]_vars

\* A FillAndKill buy priced below the resting asks was refused.
C7_Witness ==
    /\ pc = "AddOrder:270"
    /\ call.type = "FillAndKill"
    /\ call.side = "Buy"
    /\ RestingOrders(asks) # {}

\* The ladder without the list node `node`, and without the levels that
\* hold nothing else.
Without(ladder, node) ==
    LET keep(o) == o.node # node
        left == {p \in DOMAIN ladder : SelectSeq(ladder[p], keep) # <<>>}
    IN [p \in left |-> SelectSeq(ladder[p], keep)]

\* C8: CancelOrder of an id in the index removes that order and nothing else:
\* the id leaves the index, the order its level, an emptied level its ladder.
C8_CancelRemovesThatOrder ==
    [][(CallOf("CancelOrder") /\ call'.id \in DOMAIN orders) =>
         /\ Returns
         /\ orders' = RemoveKey(orders, call'.id)
         /\ bids' = Without(bids, orders[call'.id].location)
         /\ asks' = Without(asks, orders[call'.id].location)
      ]_vars

\* C9: CancelOrder and ModifyOrder with an id that is not in the index leave
\* the ladders and the index as they were; ModifyOrder returns no trades.
C9_UnknownIdIsNoOp ==
    [][((CallOf("CancelOrder") \/ CallOf("ModifyOrder"))
          /\ call'.id \notin DOMAIN orders) =>
         /\ Returns
         /\ UNCHANGED <<bids, asks, orders>>
         /\ call'.op = "ModifyOrder" => ret' = <<>>
      ]_vars

\* ModifyOrder of an unknown id has returned while orders rest.
C9_Witness ==
    /\ pc = "MatchOrder:326"
    /\ DOMAIN orders # {}
    /\ RestingOrders(bids) \cup RestingOrders(asks) # {}

\* What a call can leave behind and return: the book with its status, and
\* the returned value.
Result(B, r) ==
    [bids |-> B.bids, asks |-> B.asks, orders |-> B.orders,
     status |-> B.status, ret |-> r]

RECURSIVE MatchOrdersResults(_, _)
\* MatchOrders run from the book B with the trades tr made so far.
MatchOrdersResults(B, tr) ==
    IF LoopExits(B)
    THEN UNION {IF B2.status = "ok"
                THEN {Result(B2, r) : r \in MissingReturn(tr)}
                ELSE {Result(B2, <<>>)} : B2 \in CleanupOutcomes(B)}
    ELSE UNION {IF B2.status = "ok"
                THEN MatchOrdersResults(
                        [bids |-> B2.bids, asks |-> B2.asks,
                         orders |-> B2.orders, status |-> "ok"], B2.trades)
                ELSE {Result(B2, <<>>)} : B2 \in MatchStepOutcomes(B, tr)}

\* AddOrder of the order o on the book B.
AddOrderResults(B, o) ==
    IF Rejected(B, o)
    THEN {Result(B, <<>>)}
    ELSE MatchOrdersResults(
            [B EXCEPT !.bids = IF o.side = "Buy" THEN Insert(@, o) ELSE @,
                      !.asks = IF o.side = "Buy" THEN @ ELSE Insert(@, o),
                      !.orders = @ @@ (o.id :> OrderEntry(o))], <<>>)

\* CancelOrder(id) followed by AddOrder of the order o.
CancelThenAddResults(B, id, o) ==
    UNION {IF B1.status = "ok" THEN AddOrderResults(B1, o)
                               ELSE {Result(B1, <<>>)} :
           B1 \in CancelOrderOutcomes(B, id)}

\* A result as a caller can tell it from another: the orders of each level
\* in their order and the orders the index points to, without the numbers
\* of the nodes.
Shown(R) ==
    LET order(o) == [type |-> o.type, id |-> o.id, side |-> o.side,
                     price |-> o.price, initial |-> o.initial,
                     remaining |-> o.remaining]
        ladder(l) == [p \in DOMAIN l |-> [i \in 1..Len(l[p]) |-> order(l[p][i])]]
        entry(e) == [type |-> e.type, side |-> e.side, price |-> e.price]
    IN [bids |-> ladder(R.bids), asks |-> ladder(R.asks),
        orders |-> [k \in DOMAIN R.orders |-> entry(R.orders[k])],
        status |-> R.status, ret |-> R.ret]

\* C10: ModifyOrder of an id in the index does what CancelOrder(id) followed
\* by AddOrder of an order with that id, the type of the order it replaces
\* and the side, price and quantity of the request does: the same book and
\* the same returned trades.
C10_ModifyIsCancelThenAdd ==
    [][(CallOf("ModifyOrder") /\ call'.id \in DOMAIN orders) =>
         /\ Returns
         /\ Shown(Result([bids |-> bids', asks |-> asks', orders |-> orders',
                          status |-> "ok"], ret'))
              \in {Shown(R) :
                     R \in CancelThenAddResults(Book, call'.id,
                             Order(orders[call'.id].type, call'.id, call'.side,
                                   call'.price, call'.qty, nextNode))}
      ]_vars

\* A public operation has returned to its caller.
Returned == pc \notin {"idle", "match", "aborted"} /\ outcome = "ok"

\* Size(): the number of entries of the index.
Size == Cardinality(DOMAIN orders)

\* The places <<side, price, position>> of the ladders, and those that hold
\* an order with the id `id`.
Places ==
    {<<"Buy", p, i>> : p \in DOMAIN bids, i \in 1..MaxCalls} \cup
    {<<"Sell", p, i>> : p \in DOMAIN asks, i \in 1..MaxCalls}

Held ==
    {x \in Places :
        Len((IF x[1] = "Buy" THEN bids ELSE asks)[x[2]]) >= x[3]}

OrderAt(x) == (IF x[1] = "Buy" THEN bids ELSE asks)[x[2]][x[3]]

PlacesOf(id) == {x \in Held : OrderAt(x).id = id}

\* C11: after a public operation has returned, the index and the ladders
\* hold the same orders: every id of the index is at exactly one place of
\* the ladders, on its side and at its price; every order of a ladder has its
\* id in the index; no id is at two places; Size() counts the orders held.
C11_IndexAndLaddersAgree ==
    Returned =>
        /\ \A id \in DOMAIN orders :
              /\ Cardinality(PlacesOf(id)) = 1
              /\ \A x \in PlacesOf(id) :
                    x[1] = orders[id].side /\ x[2] = orders[id].price
        /\ \A x \in Held : OrderAt(x).id \in DOMAIN orders
        /\ \A x, y \in Held : OrderAt(x).id = OrderAt(y).id => x = y
        /\ Size = Cardinality(Held)

\* C12: every resting order has 0 <= remaining <= initial, and the matching
\* loop never calls Fill with more than the order's remaining quantity (the
\* throw of line 86 is never reached).
C12_RemainingWithinInitial ==
    /\ pc # "Fill:86"
    /\ \A o \in RestingOrders(bids) \cup RestingOrders(asks) :
          0 <= o.remaining /\ o.remaining <= o.initial

\* The loop has filled the front orders of both sides and one of them rests
\* with part of its quantity left.
C12_Witness ==
    /\ pc = "match"
    /\ trades # <<>>
    /\ \E o \in RestingOrders(bids) \cup RestingOrders(asks) :
          0 < o.remaining /\ o.remaining < o.initial

\* The results one call can have on the book as it is, as a caller can tell
\* them apart.
ResultsOfAddOrder(type, id, side, price, quantity) ==
    {Shown(R) : R \in AddOrderResults(Book,
                        Order(type, id, side, price, quantity, nextNode))}

ResultsOfCancelOrder(id) ==
    {Shown(Result(B, <<>>)) : B \in CancelOrderOutcomes(Book, id)}

ResultsOfModifyOrder(id) ==
    {Shown(Result(Book, r)) : r \in ModifyReturn(Book, id)}

\* C13: determinism: the same sequence of calls gives the same returned
\* trades and the same book: from every book a sequence of calls reaches,
\* each call has one result only.
C13_Deterministic ==
    pc = "idle" =>
        /\ \A type \in OrderTypes, id \in OrderIds, side \in Sides,
              price \in Prices, quantity \in Quantities :
              Cardinality(ResultsOfAddOrder(type, id, side, price, quantity)) = 1
        /\ \A id \in OrderIds : Cardinality(ResultsOfCancelOrder(id)) = 1
        /\ \A id \in OrderIds : Cardinality(ResultsOfModifyOrder(id)) = 1

RECURSIVE SumOfRemaining(_)
\* The sum of the remaining quantities of a set of orders.
SumOfRemaining(S) ==
    IF S = {} THEN 0
    ELSE LET o == CHOOSE x \in S : TRUE
         IN o.remaining + SumOfRemaining(S \ {o})

RECURSIVE SumOfQuantities(_)
\* The sum of the quantities of a list of LevelInfo.
SumOfQuantities(infos) ==
    IF infos = <<>> THEN 0
                    ELSE Head(infos).quantity + SumOfQuantities(Tail(infos))

\* The prices at which a ladder holds at least one order.
OccupiedPrices(ladder) == {o.price : o \in RestingOrders(ladder)}

\* What C14 says of the LevelInfos of one ladder; dir is 1 for ascending
\* prices and -1 for descending.
LevelInfosAreRight(infos, ladder, dir) ==
    /\ Len(infos) = Cardinality(OccupiedPrices(ladder))
    /\ {infos[i].price : i \in 1..Len(infos)} = OccupiedPrices(ladder)
    /\ \A i \in 1..Len(infos) - 1 :
          dir * infos[i].price < dir * infos[i + 1].price
    /\ \A i \in 1..Len(infos) :
          infos[i].quantity =
             SumOfRemaining({o \in RestingOrders(ladder) :
                                o.price = infos[i].price})
    /\ SumOfQuantities(infos) = SumOfRemaining(RestingOrders(ladder))

C15_NoEmptyLevel ==
    pc # "aborted" =>
        \A ladder \in {bids, asks} : \A p \in DOMAIN ladder : ladder[p] # <<>>

\* AddOrder has returned after a trade that took the last bid of its level,
\* while asks rest.
C15_Witness ==
    /\ pc = "AddOrder:289"
    /\ outcome = "ok"
    /\ Len(ret) = 1
    /\ ret[1].bid.price \in Prices
    /\ ret[1].bid.price \notin DOMAIN bids
    /\ DOMAIN asks # {}

\* C16: after a public operation has returned no filled order rests: every
\* order of a ladder (the orders the index points to are these) has
\* remaining > 0, an order submitted with quantity 0 included.
C16_NoFilledOrderRests ==
    Returned =>
        \A o \in RestingOrders(bids) \cup RestingOrders(asks) : o.remaining > 0

\* The orders of a ladder that a step fills or removes.
Touched(ladder, ladderAfter) == RestingOrders(ladder) \ RestingOrders(ladderAfter)

\* C17: price priority: an iteration of the matching loop fills no bid
\* while a bid with a higher price rests with quantity left, and no ask
\* while an ask with a lower price rests with quantity left.
C17_PricePriority ==
    [][(pc = "match" /\ Len(trades') > Len(trades)) =>
         /\ \A o \in Touched(bids, bids') : \A o2 \in RestingOrders(bids) :
               o2.remaining > 0 => o2.price <= o.price
         /\ \A o \in Touched(asks, asks') : \A o2 \in RestingOrders(asks) :
               o2.remaining > 0 => o2.price >= o.price
      ]_vars

\* A sell at the lower price has traded with the bid at the higher price
\* and the bid at the lower price rests whole.
C17_Witness ==
    /\ pc = "match"
    /\ call.side = "Sell"
    /\ call.price = 1
    /\ Len(trades) = 1
    /\ trades[1].bid.price = 2
    /\ trades[1].bid.qty > 0
    /\ 1 \in DOMAIN bids
    /\ bids[1][1].remaining = bids[1][1].initial
    /\ bids[1][1].remaining > 0

\* What bounds the matching loop: an iteration makes one trade and takes at
\* least one order out of the ladders, and the loop starts with no trade, so
\* the trades of a call are at most the orders resting when it starts.
LoopIsBounded ==
    /\ (pc = "idle" /\ pc' = "match") => trades' = <<>>
    /\ (pc = "match" /\ pc' = "match") =>
          /\ Len(trades') = Len(trades) + 1
          /\ Cardinality(Held') < Cardinality(Held)

\* C18: the matching loop ends: every iteration removes one of the two
\* front orders at least, a call makes no more trades than orders rest when
\* its matching starts, and every call runs to its end and returns.
C18_MatchingTerminates ==
    [][LoopIsBounded /\ (pc' # pc => outcome' = "ok")]_vars

RECURSIVE TradedQuantity(_, _)
\* The sum of the quantities of the legs of a list of trades that name id.
TradedQuantity(ts, id) ==
    IF ts = <<>> THEN 0
    ELSE (IF Head(ts).bid.id = id THEN Head(ts).bid.qty ELSE 0)
         + (IF Head(ts).ask.id = id THEN Head(ts).ask.qty ELSE 0)
         + TradedQuantity(Tail(ts), id)

\* What a step fills on the order o: its remaining quantity when the step
\* removes it, else what its remaining quantity goes down by.
FilledOn(o) ==
    LET after == {x \in RestingOrders(bids') \cup RestingOrders(asks') :
                     x.node = o.node}
    IN IF after = {} THEN o.remaining
       ELSE o.remaining - (CHOOSE x \in after : TRUE).remaining

RECURSIVE SumOfFilled(_)
SumOfFilled(S) ==
    IF S = {} THEN 0
    ELSE LET o == CHOOSE x \in S : TRUE IN FilledOn(o) + SumOfFilled(S \ {o})

\* C19: quantity conservation: the trade of an iteration names each id with
\* what the iteration fills on the resting orders of that id (nothing for an
\* id that does not rest, a cancelled one included), and the trades AddOrder
\* returns name each id with what the trades of the loop name it with.
C19_QuantityConservation ==
    [][/\ (pc = "match" /\ pc' = "match") =>
             \A id \in OrderIds :
                TradedQuantity(trades', id) - TradedQuantity(trades, id) =
                   SumOfFilled({o \in RestingOrders(bids) \cup RestingOrders(asks) :
                                   o.id = id})
       /\ (pc = "match" /\ Returns) =>
             \A id \in OrderIds :
                TradedQuantity(ret', id) = TradedQuantity(trades, id)
      ]_vars

\* C20: the steps of two mutating calls interleaved can leave the index and
\* the ladders in disagreement, while calls made one after the other (as
\* Calls makes them) never show it between calls: no order of a ladder is
\* without its index entry and no index entry without an order in a ladder.
C20_SerializedCallsAgree ==
    pc = "idle" =>
        /\ \A x \in Held : OrderAt(x).id \in DOMAIN orders
        /\ \A id \in DOMAIN orders : PlacesOf(id) # {}

====
